---- MODULE Spec2Model ----
(***************************************************************************)
(* Model of run_coverage.py: the coverage pipeline of wtree3.              *)
(*                                                                         *)
(* main() is a sequential program; its position is pc.  Every external     *)
(* command is a child process: the call of subprocess.run launches it      *)
(* (or raises OSError when the executable cannot be started) and main      *)
(* blocks until the child terminates with some exit code.  The file        *)
(* system (the entry <project_root>/build and the files below the project  *)
(* root) outlives a run; everything else is reset by the next run.         *)
(***************************************************************************)
EXTENDS Integers, Sequences, FiniteSets, TLC

(* ---- bounds ---- *)
MaxExitCode == 2      \* children exit with a code in -MaxSignal..MaxExitCode
MaxSignal == 1        \* returncode -N: the child was killed by signal N
MaxRuns == 2          \* runs of the script over the same project root

ExitCodes == (0 - MaxSignal)..MaxExitCode

(* ---- paths (pathlib's "/" is modelled as appending a component) ---- *)
ProjectRoot == <<"project_root">>
Join(p, comp) == Append(p, comp)
BuildDir == Join(ProjectRoot, "build")
\* a report written next to the build directory
OutputFile_in_root == Join(ProjectRoot, "coverage.html")
OutputFile == Join(BuildDir, "coverage.html")
SysExecutable == "python"

IsPrefix(p, q) == Len(p) <= Len(q) /\ SubSeq(q, 1, Len(p)) = p

(* ---- files: a directory path, a stem and a suffix ---- *)
File(dir, stem, suffix) == [dir |-> dir, stem |-> stem, suffix |-> suffix]
TestOutputs == { File(BuildDir, "wtree3", ".gcda"),
                 File(Join(BuildDir, "CMakeFiles"), "test_wtree3", ".gcda") }
BuildOutputs == { File(BuildDir, "wtree3", ".gcno") }
ReportOutputs == { File(BuildDir, "coverage", ".html") }
StrayFiles == { File(ProjectRoot, "old", ".gcda") }
AllFiles == TestOutputs \cup BuildOutputs \cup ReportOutputs \cup StrayFiles

(* ---- the argument lists of the external commands ---- *)
ConfigureCmd == <<"cmake", "-G", "MinGW Makefiles", "-DENABLE_COVERAGE=ON", "..">>
BuildCmd == <<"cmake", "--build", ".">>
TestCmd == <<"ctest", "--verbose">>
\* str(path): the path's components joined by the separator
Str(p) ==
    CASE p = ProjectRoot -> "project_root"
      [] p = BuildDir -> "project_root/build"
      [] p = OutputFile -> "project_root/build/coverage.html"
      [] OTHER -> "?"

\* an argument list that has lost the exclusion of the dependency cache
GcovrCmd_no_deps == <<SysExecutable, "-m", "gcovr",
                      "--root", Str(ProjectRoot),
                      "--exclude", ".*external/.*",
                      "--exclude", ".*tests/.*",
                      "--exclude", ".*build.*/.*",
                      "--gcov-ignore-parse-errors", "negative_hits.warn",
                      "--html", "--html-details",
                      "-o", Str(OutputFile),
                      Str(BuildDir)>>

GcovrCmd == <<SysExecutable, "-m", "gcovr",
              "--root", Str(ProjectRoot),
              "--exclude", ".*external/.*",
              "--exclude", ".*tests/.*",
              "--exclude", ".*build.*/.*",
              "--exclude", ".*_deps/.*",
              "--gcov-ignore-parse-errors", "negative_hits.warn",
              "--html", "--html-details",
              "-o", Str(OutputFile),
              Str(BuildDir)>>
ViewerCmd == <<"start", Str(OutputFile)>>

(* ---- console output: one record per printed message ---- *)
Msg(kind, n, args) == [kind |-> kind, n |-> n, args |-> args]

VARIABLES
    pc,          \* position of main()
    build,       \* the entry <project_root>/build: "absent", "dir" or "file"
    files,       \* the files below the project root
    platform,    \* sys.platform
    children,    \* the child processes that are running
    out,         \* what the run has printed, in order
    invoked,     \* the names of the commands this run has invoked, in order
    exits,       \* the children of this run that terminated: exit code, result
    gcda_files,  \* main's local gcda_files
    searched,    \* whether this run has evaluated rglob
    ret,         \* the value main() returned: {} while it has not returned
    run,         \* the number of this run
    written      \* the coverage-data files this run's tests have written

vars == <<pc, build, files, platform, children, out, invoked, exits,
          gcda_files, searched, ret, run, written>>

Init ==
    /\ pc = "step1"
    /\ build \in {"absent", "dir", "file"}
    /\ files \in SUBSET StrayFiles
    /\ platform \in {"win32", "linux"}
    /\ children = {}
    /\ out = <<>>
    /\ invoked = <<>>
    /\ exits = <<>>
    /\ gcda_files = {}
    /\ searched = FALSE
    /\ ret = {}
    /\ run = 1
    /\ written = {}

(* ---- run_command ---- *)

\* A child process: the command, its working directory and the step's name
Child(name, cmd, cwd) == [name |-> name, cmd |-> cmd, cwd |-> cwd]

\* print(banner) before subprocess.run
Banner(cmd) == <<Msg("Running", 0, cmd)>>

\* a test of the sign: a child killed by a signal counts as a success
run_command_returns_positive(returncode) == ~(returncode > 0)

\* the branch on result.returncode: what run_command returns
run_command_returns(returncode) == ~(returncode # 0)

\* the branch on result.returncode: what run_command prints
run_command_prints(returncode) ==
    IF returncode # 0 THEN <<Msg("ERROR", returncode, <<>>)>> ELSE <<>>

\* The outcomes of subprocess.run's launch: the child starts, or OSError
\* (FileNotFoundError, NotADirectoryError, PermissionError) is raised; the
\* function has no try/except, so the exception leaves run_command.
LaunchOutcomes == {"started", "oserror"}

\* run_command up to the point where it blocks in subprocess.run.
\* header is what main printed right before the call.
run_command_call(name, cmd, cwd, header, waitpc) ==
    /\ children = {}
    /\ invoked' = Append(invoked, name)
    /\ out' = out \o header \o Banner(cmd)
    /\ \E l \in LaunchOutcomes :
         IF l = "started"
         THEN /\ children' = {Child(name, cmd, cwd)}
              /\ pc' = waitpc
         ELSE /\ children' = {}
              /\ pc' = "raised"
    /\ UNCHANGED <<build, files, platform, exits, gcda_files, searched, ret, run, written>>

\* a wait that gives up: the caller goes on while the child is still running
ChildTerminates_abandoned(name, returncode, returned) ==
    /\ \E c \in children : c.name = name
    /\ children' = children
    /\ exits' = Append(exits, [name |-> name, code |-> returncode,
                                returned |-> returned])

\* subprocess.run returns: the child has terminated with returncode.
\* returned is what the caller of subprocess.run makes of it: {b} when
\* run_command returns b, {} when the result is dropped.
ChildTerminates(name, returncode, returned) ==
    /\ \E c \in children : c.name = name
    /\ children' = {}
    /\ exits' = Append(exits, [name |-> name, code |-> returncode,
                                returned |-> returned])

(* ---- main ---- *)

StepHeader(n) == <<Msg("Step", n, <<>>)>>

\* mkdir without exist_ok: an existing directory raises too
MkdirRaises_no_exist_ok(entry) == entry # "absent"

\* a creation step that accepts whatever it finds at the path
MkdirRaises_never(entry) == FALSE

\* lines 29-34: the two path lines, the step header, mkdir(exist_ok=True).
\* mkdir creates the directory when the entry is absent, accepts an existing
\* directory, and raises FileExistsError when the entry is not a directory.
MkdirRaises(entry) == entry = "file"

Mkdir ==
    /\ pc = "step1"
    /\ out' = out \o <<Msg("Project root", 0, ProjectRoot),
                       Msg("Build directory", 0, BuildDir)>> \o StepHeader(1)
    /\ IF MkdirRaises(build)
       THEN /\ pc' = "raised"
            /\ build' = build
       ELSE /\ pc' = "step2"
            /\ build' = "dir"
    /\ UNCHANGED <<files, platform, children, invoked, exits, gcda_files,
                   searched, ret, run, written>>

\* lines 36-43: the call of run_command for the configure command
Configure ==
    /\ pc = "step2"
    /\ run_command_call("configure", ConfigureCmd, BuildDir, StepHeader(2), "step2_wait")

\* a driver that goes on after a failed configure
ConfigureBranch_goes_on(ok) == "step3"

\* a driver that tries the configure command again when it failed
ConfigureBranch_retries(ok) == IF ~ok THEN "step2" ELSE "step3"

\* where main goes with run_command's result for configure (lines 38, 44)
ConfigureBranch(ok) == IF ~ok THEN "return1" ELSE "step3"

\* main's return statement, or the next position
Goto(target) ==
    CASE target = "return1" -> pc' = "returned" /\ ret' = {1}
      [] target = "return0" -> pc' = "returned" /\ ret' = {0}
      [] OTHER -> pc' = target /\ ret' = ret

ConfigureExit ==
    /\ pc = "step2_wait"
    /\ \E code \in ExitCodes :
         /\ ChildTerminates("configure", code, {run_command_returns(code)})
         /\ out' = out \o run_command_prints(code)
         /\ Goto(ConfigureBranch(run_command_returns(code)))
    /\ UNCHANGED <<build, files, platform, invoked, gcda_files, searched, run, written>>

\* lines 46-48: the call of run_command for the build command
Build ==
    /\ pc = "step3"
    /\ run_command_call("build", BuildCmd, BuildDir, StepHeader(3), "step3_wait")

\* a driver that treats a failed build like failed tests
BuildBranch_goes_on(ok) == "step4"

\* where main goes with run_command's result for build (lines 48-49)
BuildBranch(ok) == IF ~ok THEN "return1" ELSE "step4"

\* the build child may have left compiler notes files in the build directory
BuildExit ==
    /\ pc = "step3_wait"
    /\ \E code \in ExitCodes, W \in SUBSET BuildOutputs :
         /\ ChildTerminates("build", code, {run_command_returns(code)})
         /\ files' = files \cup W
         /\ out' = out \o run_command_prints(code)
         /\ Goto(BuildBranch(run_command_returns(code)))
    /\ UNCHANGED <<build, platform, invoked, gcda_files, searched, run, written>>

\* lines 51-53: the call of run_command for the test runner
Test ==
    /\ pc = "step4"
    /\ run_command_call("test", TestCmd, BuildDir, StepHeader(4), "step4_wait")

\* what main prints with run_command's result for the tests (lines 53-54)
TestWarning(ok) == IF ~ok THEN <<Msg("WARNING", 0, <<>>)>> ELSE <<>>

\* a driver for which failed tests are fatal
TestBranch_fatal(ok) == IF ~ok THEN "return1" ELSE "step5"

\* a driver that calls the report generator right after the tests
TestBranch_skips_search(ok) == "gcovr"

\* where main goes with run_command's result for the tests: there is no
\* return in the body of the if (lines 53-57)
TestBranch(ok) == "step5"

\* the instrumented test binaries may have written coverage-data files
TestExit ==
    /\ pc = "step4_wait"
    /\ \E code \in ExitCodes, W \in SUBSET TestOutputs :
         /\ ChildTerminates("test", code, {run_command_returns(code)})
         /\ files' = files \cup W
         /\ written' = W
         /\ out' = out \o run_command_prints(code)
                      \o TestWarning(run_command_returns(code))
         /\ Goto(TestBranch(run_command_returns(code)))
    /\ UNCHANGED <<build, platform, invoked, gcda_files, searched, run>>

\* a search that takes every file of the project with the suffix
rglob_everywhere(dir, suffix) == {f \in files : f.suffix = suffix}

\* Path.rglob("*" + suffix): the files below dir, at any depth, whose name
\* ends with the suffix
rglob(dir, suffix) == {f \in files : IsPrefix(dir, f.dir) /\ f.suffix = suffix}

\* a driver without the check of the list
DiscoverBranch_unchecked(found) == "gcovr"

\* where main goes with the list of coverage-data files (lines 63-67)
DiscoverBranch(found) == IF found = {} THEN "return1" ELSE "gcovr"

\* lines 56-65: the search for coverage-data files and the branch on it
Discover ==
    /\ pc = "step5"
    /\ LET found == rglob(BuildDir, ".gcda") IN
         /\ gcda_files' = found
         /\ searched' = TRUE
         /\ out' = out \o StepHeader(5)
                      \o <<Msg("Found", Cardinality(found), <<>>)>>
                      \o (IF found = {}
                          THEN <<Msg("ERROR: No coverage data found", 0, <<>>)>>
                          ELSE <<>>)
         /\ Goto(DiscoverBranch(found))
    /\ UNCHANGED <<build, files, platform, children, invoked, exits, run, written>>

\* lines 67-80: the call of run_command for the report generator
Gcovr ==
    /\ pc = "gcovr"
    /\ run_command_call("gcovr", GcovrCmd, ProjectRoot, <<>>, "gcovr_wait")

\* a driver that drops the result of the report generator
GcovrBranch_goes_on(ok) == "open"

\* where main goes with run_command's result for gcovr (lines 69, 81)
GcovrBranch(ok) == IF ~ok THEN "return1" ELSE "open"

\* lines 83-88: the success banner, with the path of the report
SuccessBanner(ok) ==
    IF ok THEN <<Msg("SUCCESS! Coverage report generated:", 0, OutputFile)>>
          ELSE <<>>

\* a report generator that exits with 0 has written the report
GcovrExit ==
    /\ pc = "gcovr_wait"
    /\ \E code \in ExitCodes, W \in SUBSET ReportOutputs :
         /\ code = 0 => W = ReportOutputs
         /\ ChildTerminates("gcovr", code, {run_command_returns(code)})
         /\ files' = files \cup W
         /\ out' = out \o run_command_prints(code)
                      \o SuccessBanner(GcovrBranch(run_command_returns(code)) = "open")
         /\ Goto(GcovrBranch(run_command_returns(code)))
    /\ UNCHANGED <<build, platform, invoked, gcda_files, searched, run, written>>

\* a driver that opens the viewer on every platform
OpensViewer_always(p) == TRUE

\* line 91: whether the report is opened in the viewer
OpensViewer(p) == p = "win32"

\* lines 90-94: subprocess.run(["start", ...], shell=True) starts the command
\* interpreter, which is given the command line; on the other platforms main
\* returns 0 at once
Viewer ==
    /\ pc = "open"
    /\ children = {}
    /\ IF OpensViewer(platform)
       THEN /\ children' = {Child("viewer", ViewerCmd, ProjectRoot)}
            /\ invoked' = Append(invoked, "viewer")
            /\ Goto("open_wait")
       ELSE /\ UNCHANGED <<children, invoked>>
            /\ Goto("return0")
    /\ UNCHANGED <<build, files, platform, out, exits, gcda_files, searched, run, written>>

\* lines 92-94: the result of the viewer is dropped, main returns 0
ViewerExit ==
    /\ pc = "open_wait"
    /\ \E code \in ExitCodes :
         /\ ChildTerminates("viewer", code, {})
         /\ Goto("return0")
    /\ UNCHANGED <<build, files, platform, out, invoked, gcda_files, searched, run, written>>

\* lines 96-97: the script is started again over the same project root
NewRun ==
    /\ pc \in {"returned", "raised"}
    /\ run < MaxRuns
    /\ run' = run + 1
    /\ pc' = "step1"
    /\ children' = {}
    /\ out' = <<>>
    /\ invoked' = <<>>
    /\ exits' = <<>>
    /\ gcda_files' = {}
    /\ searched' = FALSE
    /\ ret' = {}
    /\ written' = {}
    /\ UNCHANGED <<build, files, platform>>

Next ==
    \/ Mkdir
    \/ Configure
    \/ ConfigureExit
    \/ Build
    \/ BuildExit
    \/ Test
    \/ TestExit
    \/ Discover
    \/ Gcovr
    \/ GcovrExit
    \/ Viewer
    \/ ViewerExit
    \/ NewRun

Spec == Init /\ [][Next]_vars

\* The interpreter executes main's next statement, and every child process
\* that was started terminates at some time; whether the script is started
\* once more is up to its user.
FairSpec ==
    /\ Spec
    /\ WF_vars(Mkdir)
    /\ WF_vars(Configure) /\ WF_vars(ConfigureExit)
    /\ WF_vars(Build) /\ WF_vars(BuildExit)
    /\ WF_vars(Test) /\ WF_vars(TestExit)
    /\ WF_vars(Discover)
    /\ WF_vars(Gcovr) /\ WF_vars(GcovrExit)
    /\ WF_vars(Viewer) /\ WF_vars(ViewerExit)

TypeOK ==
    /\ pc \in {"step1", "step2", "step2_wait", "step3", "step3_wait", "step4",
               "step4_wait", "step5", "gcovr", "gcovr_wait", "open",
               "open_wait", "returned", "raised"}
    /\ build \in {"absent", "dir", "file"}
    /\ files \subseteq AllFiles
    /\ platform \in {"win32", "linux"}
    /\ Cardinality(children) <= 1
    /\ ret \subseteq {0, 1}
    /\ run \in 1..MaxRuns
    /\ written \subseteq TestOutputs

(* ======================= the claims ======================= *)

Range(seq) == {seq[i] : i \in DOMAIN seq}
Invoked(name) == name \in Range(invoked)
Exited(name) == \E e \in Range(exits) : e.name = name
Failed(name) == \E e \in Range(exits) : e.name = name /\ e.code # 0
Succeeded(name) == \E e \in Range(exits) : e.name = name /\ e.code = 0
Printed(kind) == \E i \in DOMAIN out : out[i].kind = kind
Terminated == pc \in {"returned", "raised"}

\* C1: once the configure command has exited with a non-zero code, main has
\* returned 1, and configure is the only command the run ever invokes: no
\* build, no tests, no search, no report generator, no viewer.
C1_ConfigureFailureAborts ==
    Failed("configure") =>
        /\ pc = "returned"
        /\ ret = {1}
        /\ invoked = <<"configure">>
        /\ children = {}
        /\ ~searched

C1_Witness ==
    /\ Failed("configure")
    /\ pc = "returned"
    /\ Printed("ERROR")

\* C2: once configure has exited with 0 and the build command with a non-zero
\* code, main has returned 1, and the run invokes nothing after the build: no
\* tests, no search, no report generator, no viewer.
C2_BuildFailureAborts ==
    (Succeeded("configure") /\ Failed("build")) =>
        /\ pc = "returned"
        /\ ret = {1}
        /\ invoked = <<"configure", "build">>
        /\ children = {}
        /\ ~searched

C2_Witness ==
    /\ Succeeded("configure")
    /\ Failed("build")
    /\ pc = "returned"

\* C3: a non-zero exit code of the test runner does not end the run: main is
\* then at the search or has performed it, the search and the call of the
\* report generator are enabled where main stands before them, the report
\* generator is invoked whenever the search found a file, and main returns 1
\* only because the search found nothing or the report generator failed.
C3_TestFailureTolerated ==
    Failed("test") =>
        /\ pc = "step5" \/ searched
        /\ pc = "step5" => ENABLED Discover
        /\ pc = "gcovr" => ENABLED Gcovr
        /\ (searched /\ gcda_files # {}) => (pc = "gcovr" \/ Invoked("gcovr"))
        /\ ret = {1} => ((searched /\ gcda_files = {}) \/ Failed("gcovr"))

C3_Witness ==
    /\ Failed("test")
    /\ Printed("WARNING")
    /\ searched
    /\ Succeeded("gcovr")
    /\ ret = {0}

\* C4: when the search finds no coverage-data file below the build directory,
\* main returns 1 and the report generator is not invoked; whenever the
\* report generator has been invoked, the discovered set is not empty and the
\* build directory holds a coverage-data file.
C4_NoCoverageDataAborts ==
    /\ (searched /\ files \cap TestOutputs = {}) =>
           /\ pc = "returned"
           /\ ret = {1}
           /\ ~Invoked("gcovr")
    /\ Invoked("gcovr") =>
           /\ searched
           /\ gcda_files # {}
           /\ files \cap TestOutputs # {}

\* the search found nothing although the project holds files, a stray
\* coverage-data file outside the build directory among them
C4_Witness ==
    /\ searched
    /\ gcda_files = {}
    /\ files \cap BuildOutputs # {}
    /\ files \cap StrayFiles # {}
    /\ Exited("test")
    /\ ret = {1}

\* C5: once the report generator has exited with 0 (it is invoked only with a
\* coverage-data file present), the run has printed the success banner with
\* the path project_root/build/coverage.html, it cannot end but by returning
\* 0, and the steps that lead there are enabled.
C5_SuccessReturnsZero ==
    Succeeded("gcovr") =>
        /\ gcda_files # {}
        /\ \E i \in DOMAIN out :
             /\ out[i].kind = "SUCCESS! Coverage report generated:"
             /\ out[i].args = <<"project_root", "build", "coverage.html">>
        /\ pc \in {"open", "open_wait", "returned"}
        /\ pc = "open" => ENABLED Viewer
        /\ pc = "open_wait" => ENABLED ViewerExit
        /\ pc = "returned" => ret = {0}

C5_Witness ==
    /\ Succeeded("gcovr")
    /\ gcda_files # {}
    /\ pc = "returned"
    /\ ret = {0}

\* C6: once the report generator has exited with a non-zero code, main has
\* returned 1: no success banner is printed and no viewer is launched.
C6_ReportFailureAborts ==
    Failed("gcovr") =>
        /\ pc = "returned"
        /\ ret = {1}
        /\ ~Printed("SUCCESS! Coverage report generated:")
        /\ ~Invoked("viewer")
        /\ children = {}

C6_Witness ==
    /\ Failed("gcovr")
    /\ platform = "win32"
    /\ pc = "returned"

\* the command a step runs
CmdOf(name) ==
    CASE name = "configure" -> ConfigureCmd
      [] name = "build" -> BuildCmd
      [] name = "test" -> TestCmd
      [] name = "gcovr" -> GcovrCmd
      [] OTHER -> ViewerCmd

AllStepsSucceeded ==
    /\ Succeeded("configure")
    /\ Succeeded("build")
    /\ searched /\ gcda_files # {}
    /\ Succeeded("gcovr")

\* C7: every run that has ended has returned 0 or 1 from main, and 0 exactly
\* when configure, build and the report generator exited with 0 and the
\* search found a coverage-data file.
C7_ExitCodeIffAllSucceeded ==
    Terminated =>
        /\ ret = {0} \/ ret = {1}
        /\ ret = {0} <=> AllStepsSucceeded

\* C8: whenever configure, build or tests run, their working directory is
\* the build directory and it exists; a run that starts with the directory
\* absent creates it, a run that finds it present passes the creation step
\* and leaves the files in it alone.
C8_BuildDirExistsAndIsReused ==
    /\ [](\A c \in children :
            c.name \in {"configure", "build", "test"} =>
                (c.cwd = BuildDir /\ build = "dir"))
    /\ [][(pc = "step1" /\ build \in {"absent", "dir"}) =>
            (pc' = "step2" /\ build' = "dir" /\ files' = files)]_vars

\* a second run configures in the directory of the first, whose
\* coverage-data files are still there
C8_Witness ==
    /\ run = 2
    /\ \E c \in children : c.name = "configure" /\ c.cwd = BuildDir
    /\ files \cap TestOutputs # {}
    /\ build = "dir"

\* C9: no run ends with an exception once run_command has been called: every
\* call of run_command ends with a boolean and main goes on or returns 1.
C9_RunCommandNeverRaises ==
    invoked # <<>> => pc # "raised"

\* C10: every call of run_command whose child has terminated returned True
\* exactly when the exit code was 0, and the error message with the exit
\* code follows the command's banner exactly when the code was not 0.
C10_ReturnsTrueIffZero ==
    \A i \in DOMAIN exits :
        LET e == exits[i] IN
        e.name # "viewer" =>
            /\ e.returned = {e.code = 0}
            /\ e.code # 0 <=>
                 \E j \in DOMAIN out :
                    /\ j > 1
                    /\ out[j] = Msg("ERROR", e.code, <<>>)
                    /\ out[j - 1] = Msg("Running", 0, CmdOf(e.name))

\* the tests were killed by a signal: False, and the message has the code
C10_Witness ==
    \E i \in DOMAIN exits :
        /\ exits[i].name = "test"
        /\ exits[i].code < 0
        /\ exits[i].returned = {FALSE}
        /\ \E j \in DOMAIN out : out[j] = Msg("ERROR", exits[i].code, <<>>)

\* the four exclusion patterns: external/, tests/, build*/ and _deps/
ExclusionPatterns ==
    {".*external/.*", ".*tests/.*", ".*build.*/.*", ".*_deps/.*"}

\* argv holds "--exclude" followed by the pattern
Excludes(argv, pattern) ==
    \E i \in DOMAIN argv :
        /\ i < Len(argv)
        /\ argv[i] = "--exclude"
        /\ argv[i + 1] = pattern

\* C11: whenever the report generator has been invoked, the argument list
\* handed to it (the one of its banner, and the one of the running child)
\* holds --exclude with each of the four patterns.
C11_FourExclusionPatterns ==
    /\ Invoked("gcovr") =>
         \E j \in DOMAIN out :
            /\ out[j].kind = "Running"
            /\ "gcovr" \in Range(out[j].args)
            /\ \A p \in ExclusionPatterns : Excludes(out[j].args, p)
    /\ \A c \in children :
         c.name = "gcovr" => \A p \in ExclusionPatterns : Excludes(c.cmd, p)

\* the report generator runs after failed tests, in a project that holds a
\* coverage-data file outside the build directory and no report yet
C11_Witness ==
    /\ \E c \in children : c.name = "gcovr"
    /\ Failed("test")
    /\ files \cap StrayFiles # {}
    /\ files \cap ReportOutputs = {}

\* C12: the viewer is launched only after the report generator exited with
\* 0 and only on win32; a successful run on another platform returns without
\* launching it, one on win32 returns only after launching it; and whatever
\* the viewer's exit code, the run that reached this step returns 0.
C12_ViewerBestEffort ==
    /\ Invoked("viewer") => (Succeeded("gcovr") /\ platform = "win32")
    /\ (Succeeded("gcovr") /\ pc = "returned") =>
         /\ Invoked("viewer") <=> platform = "win32"
         /\ Exited("viewer") <=> platform = "win32"
         /\ ret = {0}
    /\ Exited("viewer") => (pc = "returned" /\ ret = {0})
    /\ pc = "open_wait" => ENABLED ViewerExit

\* the viewer failed and the run returned 0
C12_Witness ==
    /\ Failed("viewer")
    /\ platform = "win32"
    /\ pc = "returned"
    /\ ret = {0}

\* C13 as stated: step 1 cannot fail, whatever the entry at the path of the
\* build directory is: no run ends with an exception before its first
\* command is invoked.
C13_Step1CannotFail ==
    pc = "raised" => invoked # <<>>

\* C13 as amended: with the entry absent or a directory, step 1 leaves a
\* directory there and main stands before the configure command, which it
\* can invoke; with an entry that is not a directory, mkdir raises
\* FileExistsError, the entry stays as it is and no command is invoked.
C13_Step1FailsOnlyOnNonDirectory ==
    /\ [][pc = "step1" =>
            IF build = "file"
            THEN pc' = "raised" /\ build' = "file" /\ invoked' = <<>>
            ELSE pc' = "step2" /\ build' = "dir"]_vars
    /\ [](pc = "step2" => (build = "dir" /\ ENABLED Configure))
    /\ []((pc = "raised" /\ invoked = <<>>) => build = "file")

\* step 1 has completed and main stands before the configure command
C13_Witness ==
    /\ pc = "step2"
    /\ build = "dir"
    /\ invoked = <<>>
    /\ Printed("Build directory")

\* the order of the commands of a run
CommandOrder == <<"configure", "build", "test", "gcovr", "viewer">>

\* C14: the commands a run has invoked are an initial part of configure,
\* build, test, report generator (then the viewer); the search comes after
\* the test child has terminated and before the report generator is
\* invoked; every command but the last invoked one has terminated, in the
\* order of invocation, and at most one child is running, the last invoked.
C14_SequentialOrder ==
    /\ Cardinality(children) <= 1
    /\ Len(invoked) <= Len(CommandOrder)
    /\ invoked = SubSeq(CommandOrder, 1, Len(invoked))
    /\ Len(exits) <= Len(invoked)
    /\ Len(invoked) - Len(exits) <= 1
    /\ \A i \in DOMAIN exits : exits[i].name = invoked[i]
    /\ \A c \in children :
         /\ Len(invoked) = Len(exits) + 1
         /\ c.name = invoked[Len(invoked)]
    /\ searched => (Exited("test") /\ ~(\E c \in children : c.name = "test"))
    /\ Invoked("gcovr") => searched

\* the report generator runs, the three commands before it have terminated
C14_Witness ==
    /\ \E c \in children : c.name = "gcovr"
    /\ Len(exits) = 3
    /\ searched

\* no two positions of the sequence hold the same value
NoRepeat(seq) == \A i, j \in DOMAIN seq : seq[i] = seq[j] => i = j

\* C15: within a run no command is invoked twice and no child terminates
\* twice, whatever the exit codes; no banner and no step header is printed
\* twice, so no step is entered again.
C15_NoRetries ==
    /\ NoRepeat(invoked)
    /\ NoRepeat([i \in DOMAIN exits |-> exits[i].name])
    /\ \A i, j \in DOMAIN out :
         (out[i].kind \in {"Running", "Step", "Found"} /\ out[i] = out[j])
             => i = j

\* a run in which the tests and the report generator failed has invoked
\* each of the four commands, once
C15_Witness ==
    /\ Failed("test")
    /\ Failed("gcovr")
    /\ Len(invoked) = 4
    /\ pc = "returned"

\* the positions at which main is blocked in subprocess.run
WaitPositions == {"step2_wait", "step3_wait", "step4_wait", "gcovr_wait", "open_wait"}

ZeroCoverageAbort ==
    /\ searched
    /\ ret = {1}
    /\ ~Invoked("gcovr")

\* C17 as stated: in every run that has performed the search, the
\* zero-coverage-data abort has occurred exactly when the tests of that run
\* wrote no coverage-data file.
C17_AbortIffTestsWroteNothing ==
    searched => (ZeroCoverageAbort <=> written = {})

\* C17 as amended: in every run that has performed the search, the abort
\* has occurred exactly when the build directory holds no coverage-data
\* file, written by this run's tests or left by an earlier run; so tests
\* that wrote a file never lead to the abort, and tests that wrote none
\* lead to it only when no earlier run left a file.
C17_AbortIffNoCoverageDataOnDisk ==
    searched =>
        /\ ZeroCoverageAbort <=> (files \cap TestOutputs = {})
        /\ written # {} => ~ZeroCoverageAbort
        /\ gcda_files = files \cap TestOutputs
        /\ written \subseteq gcda_files

\* a second run whose tests wrote nothing calls the report generator on the
\* files of the first
C17_Witness ==
    /\ run = 2
    /\ searched
    /\ written = {}
    /\ Invoked("gcovr")
    /\ files \cap StrayFiles # {}
====
